---- MODULE Spec2Model ----
(***************************************************************************)
(* Model of legacy_to_techdocs: the translation of legacy API              *)
(* documentation links (linode.com/docs/api/...) into the external         *)
(* documentation URLs of the new API description.                          *)
(*                                                                         *)
(* Texts are sequences of tokens.  A token is one character, except:       *)
(*   "H"   the literal  https://www.          (12 characters)              *)
(*   "L"   the literal  linode.com/docs/api   (19 characters)              *)
(*   "NL"  the line separator os.linesep      (1 character)                *)
(*   "Q"   the double quote                   (1 character)                *)
(*   a member of Urls: one external documentation URL of the new API       *)
(*         description, taken to be 20 characters long and to contain no   *)
(*         legacy link.                                                    *)
(* Python's None is "None" where a string is expected and <<"None">>       *)
(* where a text is expected.                                               *)
(***************************************************************************)
EXTENDS Integers, Sequences, FiniteSets, TLC

VARIABLES
    source,       \* library level: the documents and the valid_paths order the translator is built from
    translator,   \* library level: the URLTranslator object under test
    call,         \* library level: the last replace_urls call and its outcome
    docFiles,     \* CLI level: the API description documents on disk
    binFiles,     \* CLI level: the pickle binaries on disk
    files,        \* CLI level: the text files on disk
    baked,        \* CLI level: the documents last baked into the default pickle binary
    stdout,       \* CLI level: what the last command wrote to standard output
    last          \* CLI level: the last command, its arguments and outcome

vars == <<source, translator, call, docFiles, binFiles, files, baked, stdout, last>>

libVars == <<source, translator, call>>
cliVars == <<docFiles, binFiles, files, baked, stdout, last>>

---------------------------------------------------------------------------
(* Bounds of the model *)

\* number of text pieces a replace_urls target is made of
MaxPieces == 2
\* number of URL arguments of a convert command
MaxArgs == 2
\* number of path items of a document a translator is built from
MaxItems == 2

---------------------------------------------------------------------------
(* Characters *)

None == "None"
NoneText == <<"None">>

Lower == {"a", "b", "q", "z"}
Upper == {"A", "B"}
Digits == {"1"}
Letters == Lower \cup Upper

Urls == {"R", "U1", "U2", "U3", "U4"}

\* \w  plus "-"
TagClass == Letters \cup Digits \cup {"_", "-"}
\* [a-zA-Z0-9-]
SummaryClass == Letters \cup Digits \cup {"-"}
\* [\w\-]
AnchorClass == Letters \cup Digits \cup {"_", "-"}
\* the lookahead  (?=["\s)]|$)
LookaheadClass == {"Q", " ", "NL", ")"}

\* str.lower() on one character
lower(c) == IF c = "A" THEN "a" ELSE IF c = "B" THEN "b" ELSE c

\* URL_PATH_REGEX = [^a-zA-z0-9- ] : the characters that regex removes are
\* those outside this class; the range A-z also spans [ \ ] ^ _ `
UrlPathKeep == Letters \cup Digits \cup {"-", " ", "_"}

RECURSIVE flatten_path_for_url(_)
\* URL_PATH_REGEX.sub("", value.lower()).replace(" ", "-")
flatten_path_for_url(value) ==
    IF value = <<>> THEN <<>>
    ELSE LET c == lower(Head(value))
             rest == flatten_path_for_url(Tail(value))
         IN  IF c \notin UrlPathKeep THEN rest
             ELSE IF c = " " THEN <<"-">> \o rest
             ELSE <<c>> \o rest

---------------------------------------------------------------------------
(* Paths *)

ParamSegments == {"{apiVersion}", "{v}", "{id}", "{linodeId}"}

\* URL_PATH_IDS_REGEX.sub("{}", url), one path segment at a time
strip_segment(seg) == IF seg \in ParamSegments THEN "{}" ELSE seg

strip_url_ids(url) == [i \in 1..Len(url) |-> strip_segment(url[i])]

---------------------------------------------------------------------------
(* Insertion-ordered dictionaries: sequences of <<key, value>> with unique keys *)

DictHas(d, k) == \E i \in 1..Len(d) : d[i][1] = k

DictGet(d, k) == d[CHOOSE i \in 1..Len(d) : d[i][1] = k][2]

\* d[k] = v : a new key is appended, an existing key keeps its place
DictSet(d, k, v) ==
    IF DictHas(d, k)
    THEN [i \in 1..Len(d) |-> IF d[i][1] = k THEN <<k, v>> ELSE d[i]]
    ELSE Append(d, <<k, v>>)

---------------------------------------------------------------------------
(* openapi.py *)

\* CondensedOpenAPI.valid_paths: a set literal, iterated in hash order
valid_paths == {"get", "post", "put", "delete"}

\* the orders in which one process may iterate valid_paths
MethodOrders ==
    {o \in [1..Cardinality(valid_paths) -> valid_paths] :
        \A i, j \in DOMAIN o : i # j => o[i] # o[j]}

\* CondensedOperation.from_operation; op.path[-2] is rawPath, op.path[-1] is method
from_operation(op, rawPath, method) ==
    [summary |-> op.summary,
     tag |-> IF Len(op.tags) > 0 THEN op.tags[1] ELSE NoneText,
     path |-> strip_url_ids(rawPath),
     method |-> method,
     external_docs_url |-> op.externalDocs]

RECURSIVE from_spec_paths(_, _, _, _, _)
\* the double loop of CondensedOpenAPI.from_spec: path items in document order,
\* the methods of one path item in the order of valid_paths
from_spec_paths(spec, order, p, m, paths) ==
    IF p > Len(spec.paths) THEN paths
    ELSE IF m > Len(order) THEN from_spec_paths(spec, order, p + 1, 1, paths)
    ELSE LET item == spec.paths[p]
             method == order[m]
         IN  IF method \notin DOMAIN item.ops
             THEN from_spec_paths(spec, order, p, m + 1, paths)
             ELSE LET op_parsed == from_operation(item.ops[method], item.path, method)
                  IN  from_spec_paths(spec, order, p, m + 1,
                         DictSet(paths, <<op_parsed.path, op_parsed.method>>, op_parsed))

from_spec(spec, order) ==
    [root_docs_url |-> spec.externalDocs,
     paths |-> from_spec_paths(spec, order, 1, 1, <<>>)]

---------------------------------------------------------------------------
(* translation.py: the translator and its indexes *)

RECURSIVE build_op_map_from(_, _, _)
\* the loop of URLTranslator._build_op_map over legacy_spec.paths.values()
build_op_map_from(paths, i, result) ==
    IF i > Len(paths) THEN result
    ELSE LET op == paths[i][2]
         IN  IF op.tag = NoneText \/ op.summary = NoneText
             THEN build_op_map_from(paths, i + 1, result)
             ELSE build_op_map_from(paths, i + 1,
                     DictSet(result,
                             <<flatten_path_for_url(op.tag),
                               flatten_path_for_url(op.summary)>>,
                             op))

build_op_map(legacy_spec) == build_op_map_from(legacy_spec.paths, 1, <<>>)

\* URLTranslator.__init__; order is the iteration order of valid_paths in
\* the process that builds the translator
URLTranslator(legacy_doc, new_doc, order) ==
    LET legacy_spec == from_spec(legacy_doc, order)
    IN  [legacy_spec |-> legacy_spec,
         new_spec |-> from_spec(new_doc, order),
         legacy_op_map |-> build_op_map(legacy_spec)]

Ok(url) == [kind |-> "ok", url |-> url, msg |-> ""]
Raise(exc, msg) == [kind |-> exc, url |-> None, msg |-> msg]

\* a slip: the key lacks the leading path-parameter segment
equivalent_key_no_prefix(legacy_operation) ==
    <<legacy_operation.path, legacy_operation.method>>

\* URLTranslator.get_equivalent_operation
equivalent_key(legacy_operation) ==
    <<(<<"{}">> \o legacy_operation.path), legacy_operation.method>>

get_equivalent_operation(self, legacy_operation) ==
    LET key == equivalent_key(legacy_operation)
    IN  IF ~DictHas(self.new_spec.paths, key)
        THEN Raise("TranslationError", "PathNotFound")
        ELSE [kind |-> "ok", op |-> DictGet(self.new_spec.paths, key)]

\* the tail of _translate_from_components once legacy_op is known
translate_legacy_op(self, legacy_op) ==
    LET new_op == get_equivalent_operation(self, legacy_op)
    IN  IF new_op.kind # "ok" THEN Raise(new_op.kind, new_op.msg)
        ELSE IF new_op.op.external_docs_url = None
        THEN Raise("TranslationError", "NoExternalDocs")
        ELSE Ok(new_op.op.external_docs_url)

\* a slip: the last matching entry instead of the first
last_with_tag(op_map, tag) ==
    LET hits == {i \in 1..Len(op_map) : op_map[i][1][1] = tag}
    IN  IF hits = {} THEN 0
        ELSE CHOOSE i \in hits : \A j \in hits : i >= j

\* next(op for key, op in self._legacy_op_map.items() if key[0] == tag):
\* the index of the entry it yields, 0 when the generator is exhausted
first_with_tag(op_map, tag) ==
    LET hits == {i \in 1..Len(op_map) : op_map[i][1][1] = tag}
    IN  IF hits = {} THEN 0
        ELSE CHOOSE i \in hits : \A j \in hits : i <= j

\* a slip: the missing summary is tested before the missing tag
translate_from_components_summary_first(self, components) ==
    LET op_key == <<components.tag, components.summary>>
    IN  IF components.summary = NoneText
        THEN IF components.tag = NoneText
             THEN Ok(self.new_spec.root_docs_url)
             ELSE LET i == first_with_tag(self.legacy_op_map, components.tag)
                  IN  IF i = 0 THEN Raise("StopIteration", "")
                      ELSE translate_legacy_op(self, self.legacy_op_map[i][2])
        ELSE IF ~DictHas(self.legacy_op_map, op_key)
        THEN Raise("TranslationError", "PairNotFound")
        ELSE translate_legacy_op(self, DictGet(self.legacy_op_map, op_key))

\* URLTranslator._translate_from_components
translate_from_components(self, components) ==
    LET op_key == <<components.tag, components.summary>>
    IN  IF components.tag = NoneText
        THEN Ok(self.new_spec.root_docs_url)
        ELSE IF components.summary = NoneText
        THEN LET i == first_with_tag(self.legacy_op_map, components.tag)
             IN  IF i = 0 THEN Raise("StopIteration", "")
                 ELSE translate_legacy_op(self, self.legacy_op_map[i][2])
        ELSE IF ~DictHas(self.legacy_op_map, op_key)
        THEN Raise("TranslationError", "PairNotFound")
        ELSE translate_legacy_op(self, DictGet(self.legacy_op_map, op_key))

---------------------------------------------------------------------------
(* translation.py: LEGACY_URL_REGEX *)
(*  (?:https://www.)?linode.com/docs/api/?(?P<tag>[\w-]+)?/?#?            *)
(*  (?P<summary>[a-zA-Z0-9-]+)?(?:__(?P<anchor>[\w\-]+))?(?=["\s)]|$)      *)

HasAt(s, i, c) == i <= Len(s) /\ s[i] = c

RECURSIVE Run(_, _, _)
\* the length of the longest run of characters of class cls starting at s[i]
Run(s, i, cls) ==
    IF i <= Len(s) /\ s[i] \in cls THEN 1 + Run(s, i + 1, cls) ELSE 0

\* an optional single character: taken (1) or not (0)
Opt(s, i, c) == IF HasAt(s, i, c) THEN {0, 1} ELSE {0}

\* (?:__(?P<anchor>[\w\-]+))? : 0 for absent, else the length of the anchor
AnchorLens(s, i) ==
    {0} \cup (IF HasAt(s, i, "_") /\ HasAt(s, i + 1, "_")
              THEN 1..Run(s, i + 2, AnchorClass) ELSE {})

\* (?=["\s)]|$) with re.MULTILINE
LookaheadOk(s, e) == e > Len(s) \/ s[e] \in LookaheadClass

ParseEnd(p, c) ==
    p + c.s1 + c.tl + c.s2 + c.h + c.sl + (IF c.al > 0 THEN 2 + c.al ELSE 0)

\* every way the part of the pattern after linode.com/docs/api matches at s[p]
TailParses(s, p) ==
    LET all ==
          UNION { UNION { UNION { UNION { UNION {
            {[s1 |-> s1, tl |-> tl, s2 |-> s2, h |-> h, sl |-> sl, al |-> al] :
                al \in AnchorLens(s, p + s1 + tl + s2 + h + sl)}
            : sl \in 0..Run(s, p + s1 + tl + s2 + h, SummaryClass)}
            : h \in Opt(s, p + s1 + tl + s2, "#")}
            : s2 \in Opt(s, p + s1 + tl, "/")}
            : tl \in 0..Run(s, p + s1, TagClass)}
            : s1 \in Opt(s, p, "/")}
    IN  {c \in all : LookaheadOk(s, ParseEnd(p, c))}

\* the order in which a backtracking matcher tries the parses: every
\* quantifier is greedy, so the longer alternative of the earlier quantifier first
TriedBefore(c, d) ==
    LET a == <<c.s1, c.tl, c.s2, c.h, c.sl, c.al>>
        b == <<d.s1, d.tl, d.s2, d.h, d.sl, d.al>>
    IN  \E k \in 1..6 : a[k] > b[k] /\ \A j \in 1..(k - 1) : a[j] = b[j]

Group(s, from, len) == IF len = 0 THEN NoneText ELSE SubSeq(s, from, from + len - 1)

NoMatch == [found |-> FALSE, start |-> 0, end |-> 0,
            tag |-> NoneText, summary |-> NoneText, anchor |-> NoneText]

\* LEGACY_URL_REGEX matched at position i of s; end is the first position
\* after the match
MatchAt(s, i) ==
    LET p == IF HasAt(s, i, "H") /\ HasAt(s, i + 1, "L") THEN i + 2
             ELSE IF HasAt(s, i, "L") THEN i + 1
             ELSE 0
    IN  IF p = 0 \/ TailParses(s, p) = {} THEN NoMatch
        ELSE LET ps == TailParses(s, p)
                 c == CHOOSE x \in ps : \A y \in ps : x = y \/ TriedBefore(x, y)
                 sumAt == p + c.s1 + c.tl + c.s2 + c.h
             IN  [found |-> TRUE, start |-> i, end |-> ParseEnd(p, c),
                  tag |-> Group(s, p + c.s1, c.tl),
                  summary |-> Group(s, sumAt, c.sl),
                  anchor |-> Group(s, sumAt + c.sl + 2, c.al)]

\* LegacyURLComponents(**match.groupdict())
LegacyURLComponents(m) == [tag |-> m.tag, summary |-> m.summary, anchor |-> m.anchor]

---------------------------------------------------------------------------
(* translation.py: TranslationMeta and replace_urls *)

\* the number of characters a token stands for
Width(tok) ==
    IF tok = "H" THEN 12 ELSE IF tok = "L" THEN 19
    ELSE IF tok \in Urls THEN 20 ELSE 1

RECURSIVE Chars(_, _)
\* the number of characters of the first n tokens of s
Chars(s, n) == IF n = 0 THEN 0 ELSE Chars(s, n - 1) + Width(s[n])

\* TranslationMeta.get_match_location; start is the match's first token
get_match_location(content, start) ==
    LET absolute_position == Chars(content, start - 1)
        seps == {k \in 1..(start - 1) : content[k] = "NL"}
        \* content.rfind(os.linesep, 0, absolute_position)
        rfind == IF seps = {} THEN -1
                 ELSE Chars(content, (CHOOSE k \in seps : \A j \in seps : j <= k) - 1)
    IN  <<Cardinality(seps) + 1, absolute_position - rfind>>

NoMeta == [before |-> NoneText, after |-> None, file |-> None, location |-> <<0, 0>>]

\* what re.sub writes for a handler result: None counts as the empty string
Written(result) == IF result = None THEN <<>> ELSE <<result>>

\* a slip: the translation is recorded but the matched text is returned
sub_handler_returns_match(self, target, force, path, m) ==
    LET before == SubSeq(target, m.start, m.end - 1)
        meta == [before |-> before, after |-> None, file |-> path,
                 location |-> get_match_location(target, m.start)]
        tr == translate_from_components(self, LegacyURLComponents(m))
    IN  IF tr.kind = "ok"
        THEN [kind |-> "ok", out |-> before,
              meta |-> [meta EXCEPT !.after = tr.url], warned |-> FALSE, msg |-> ""]
        ELSE IF tr.kind = "TranslationError"
        THEN IF ~force
             THEN [kind |-> "TranslationError", out |-> <<>>,
                   meta |-> meta, warned |-> FALSE, msg |-> tr.msg]
             ELSE [kind |-> "ok", out |-> before,
                   meta |-> meta, warned |-> TRUE, msg |-> tr.msg]
        ELSE [kind |-> tr.kind, out |-> <<>>, meta |-> NoMeta, warned |-> FALSE,
              msg |-> tr.msg]

\* replace_urls._sub_handler for one match: kind "ok" when it returns,
\* else the exception that leaves it
sub_handler(self, target, force, path, m) ==
    LET before == SubSeq(target, m.start, m.end - 1)
        meta == [before |-> before, after |-> None, file |-> path,
                 location |-> get_match_location(target, m.start)]
        tr == translate_from_components(self, LegacyURLComponents(m))
    IN  IF tr.kind = "ok"
        THEN [kind |-> "ok", out |-> Written(tr.url),
              meta |-> [meta EXCEPT !.after = tr.url], warned |-> FALSE, msg |-> ""]
        ELSE IF tr.kind = "TranslationError"
        THEN IF ~force
             THEN [kind |-> "TranslationError", out |-> <<>>,
                   meta |-> meta, warned |-> FALSE, msg |-> tr.msg]
             ELSE [kind |-> "ok", out |-> before,
                   meta |-> meta, warned |-> TRUE, msg |-> tr.msg]
        ELSE [kind |-> tr.kind, out |-> <<>>, meta |-> NoMeta, warned |-> FALSE,
              msg |-> tr.msg]

RECURSIVE re_sub(_, _, _, _, _, _)
\* LEGACY_URL_REGEX.sub(_sub_handler, target) from position i on, acc being
\* what was produced so far
re_sub(self, target, force, path, i, acc) ==
    IF i > Len(target) THEN acc
    ELSE LET m == MatchAt(target, i)
         IN  IF ~m.found
             THEN re_sub(self, target, force, path, i + 1,
                         [acc EXCEPT !.text = Append(@, target[i])])
             ELSE LET h == sub_handler(self, target, force, path, m)
                  IN  IF h.kind # "ok"
                      THEN [kind |-> h.kind, text |-> <<>>, replacements |-> <<>>,
                            warnings |-> acc.warnings, meta |-> h.meta, msg |-> h.msg]
                      ELSE re_sub(self, target, force, path, m.end,
                             [acc EXCEPT
                                !.text = @ \o h.out,
                                !.replacements =
                                    IF h.warned THEN @ ELSE Append(@, h.meta),
                                !.warnings =
                                    IF h.warned THEN Append(@, h.meta) ELSE @])

\* URLTranslator.replace_urls: kind "return" with the text and the
\* replacements, or the exception raised; warnings is what went to stderr
replace_urls(self, target, force, path) ==
    re_sub(self, target, force, path, 1,
           [kind |-> "return", text |-> <<>>, replacements |-> <<>>,
            warnings |-> <<>>, meta |-> NoMeta, msg |-> ""])

---------------------------------------------------------------------------
(* The API description documents the model runs on.  A document is what    *)
(* openapi3.OpenAPI gives: externalDocs.url and the path items in document *)
(* order, each with the operations it defines.                             *)

Op(tags, summary, url) == [tags |-> tags, summary |-> summary, externalDocs |-> url]

LegacyDocA ==
    [externalDocs |-> None,
     paths |-> <<
        [path |-> <<"account">>,
         ops |-> [get |-> Op(<< <<"A">> >>, <<"B">>, None),
                  put |-> Op(<< <<"A">>, <<"q">> >>, <<"z", ".">>, None)]],
        [path |-> <<"linode", "{linodeId}">>,
         ops |-> [get |-> Op(<< <<"A", " ", "b">> >>, <<"b">>, None),
                  post |-> Op(<< >>, <<"q">>, None),
                  delete |-> Op(<< <<"B">> >>, NoneText, None)]],
        [path |-> <<"linode", "{id}">>,
         ops |-> [delete |-> Op(<< <<"B">> >>, <<"a">>, None)]] >>]

LegacyDocB ==
    [externalDocs |-> None,
     paths |-> <<
        [path |-> <<"account">>,
         ops |-> [put |-> Op(<< <<"A">> >>, <<"B">>, None),
                  get |-> Op(<< <<"A">> >>, <<"B">>, None)]],
        [path |-> <<"events">>,
         ops |-> [get |-> Op(<< <<"A">> >>, <<"z">>, None),
                  patch |-> Op(<< <<"A">> >>, <<"q">>, None)]] >>]

LegacyDocC ==
    [externalDocs |-> None,
     paths |-> <<
        [path |-> <<"account">>,
         ops |-> [get |-> Op(<< <<"A">> >>, <<"B">>, None),
                  put |-> Op(<< <<"A">> >>, <<"z">>, None)]] >>]

NewDocA ==
    [externalDocs |-> "R",
     paths |-> <<
        [path |-> <<"{apiVersion}", "account">>,
         ops |-> [get |-> Op(<< <<"A">> >>, <<"B">>, "U1"),
                  put |-> Op(<< <<"A">> >>, <<"z">>, None)]],
        [path |-> <<"{v}", "linode", "{id}">>,
         ops |-> [get |-> Op(<< <<"A">> >>, <<"b">>, "U2")]],
        [path |-> <<"{apiVersion}", "events">>,
         ops |-> [get |-> Op(<< <<"A">> >>, <<"z">>, "U3")]] >>]

NewDocB ==
    [externalDocs |-> None,
     paths |-> <<
        [path |-> <<"{apiVersion}", "account">>,
         ops |-> [get |-> Op(<< <<"A">> >>, <<"B">>, "U3"),
                  put |-> Op(<< <<"A">> >>, <<"z">>, "U4")]],
        [path |-> <<"account">>,
         ops |-> [get |-> Op(<< <<"A">> >>, <<"B">>, "U2")]] >>]

NewDocD == [NewDocA EXCEPT !.externalDocs = None]

\* the documents translators are built from directly
LegacyDocs == {LegacyDocA, LegacyDocB}
NewDocs == {NewDocA, NewDocB}

\* what the files openapi-legacy.yaml and openapi.yaml may hold together
DocVersions ==
    { [legacy |-> LegacyDocC, new |-> NewDocA],
      [legacy |-> LegacyDocB, new |-> NewDocD] }

\* the translators a process can build from the documents
Translators ==
    {URLTranslator(l, n, o) : l \in LegacyDocs, n \in NewDocs, o \in MethodOrders}

---------------------------------------------------------------------------
(* The texts the model runs on: up to MaxPieces pieces, concatenated *)

Pieces ==
    { <<" ">>, <<".">>, <<"NL">>,
      <<"L">>,
      <<"H", "L", "/", "a">>,
      <<"L", "/", "a", "/", "#", "b", " ">>,
      <<"L", "/", "a", "-", "b", "/", "#", "b">>,
      <<"L", "/", "q", ")">>,
      <<"L", "/", "a", "/", "#", "q", "NL">>,
      <<"L", "/", "b", "/", "#", "a">>,
      <<"L", "/", "a", "/", "#", "b", "_", "_", "q">>,
      <<"L", "#", "b">> }

RECURSIVE TextsOf(_)
TextsOf(n) ==
    IF n = 0 THEN {<<>>}
    ELSE LET shorter == TextsOf(n - 1)
         IN  shorter \cup {t \o p : t \in shorter, p \in Pieces}

Texts == TextsOf(MaxPieces)

---------------------------------------------------------------------------
(* Library level: a translator built from two documents, and one call of   *)
(* replace_urls on it                                                      *)

NoCall == [made |-> FALSE, target |-> <<>>, force |-> FALSE, path |-> None,
           outcome |-> [kind |-> "none", text |-> <<>>, replacements |-> <<>>,
                        warnings |-> <<>>, meta |-> NoMeta, msg |-> ""]]

CliIdle ==
    /\ docFiles = <<>>
    /\ binFiles = <<>>
    /\ files = <<>>
    /\ baked = <<>>
    /\ stdout = <<>>
    /\ last = <<>>

InitFn ==
    /\ source \in [legacy : LegacyDocs, new : NewDocs, order : MethodOrders]
    /\ translator = URLTranslator(source.legacy, source.new, source.order)
    /\ call = NoCall
    /\ CliIdle

CallReplaceUrls ==
    /\ ~call.made
    /\ \E target \in Texts, force \in BOOLEAN :
          call' = [made |-> TRUE, target |-> target, force |-> force, path |-> "f1",
                   outcome |-> replace_urls(translator, target, force, "f1")]
    /\ UNCHANGED <<source, translator>>
    /\ UNCHANGED cliVars

NextFn == CallReplaceUrls

SpecFn == InitFn /\ [][NextFn]_vars

---------------------------------------------------------------------------
(* Single links: replace_urls is called on one legacy link, written with   *)
(* or without an anchor                                                    *)

\* legacy links without an anchor, each matched by LEGACY_URL_REGEX as a whole
BaseLinks ==
    { <<"L">>, <<"L", "/">>, <<"L", "#">>,
      <<"L", "/", "a">>, <<"H", "L", "/", "a", "/">>, <<"L", "/", "a", "/", "#">>,
      <<"L", "/", "a", "/", "#", "b">>, <<"H", "L", "/", "a", "/", "z">>,
      <<"L", "/", "a", "-", "b", "/", "#", "b">>,
      <<"L", "/", "b", "/", "#", "a">>, <<"L", "/", "a", "/", "#", "q">> }

\* the anchors a link is written with
Anchors == { <<"q">>, <<"a", "-", "b">>, <<"b", "_", "1">>, <<"z", "_", "_", "a">> }

\* link followed by __ and anchor
WithAnchor(link, anchor) == link \o <<"_", "_">> \o anchor

LinkTexts == BaseLinks \cup {WithAnchor(b, a) : b \in BaseLinks, a \in Anchors}

CallOnLink ==
    /\ ~call.made
    /\ \E target \in LinkTexts, force \in BOOLEAN :
          call' = [made |-> TRUE, target |-> target, force |-> force, path |-> "f1",
                   outcome |-> replace_urls(translator, target, force, "f1")]
    /\ UNCHANGED <<source, translator>>
    /\ UNCHANGED cliVars

NextLink == CallOnLink

SpecLink == InitFn /\ [][NextLink]_vars

---------------------------------------------------------------------------
(* Construction: a translator is built from two documents drawn from a     *)
(* family of small documents                                               *)

\* the path items documents are made of; their raw paths are distinct, as
\* the keys of spec.paths are
PathItems ==
    { [path |-> <<"linode", "{id}">>,
       ops |-> [get |-> Op(<< <<"A">> >>, <<"B">>, "U1"),
                put |-> Op(<< <<"A">>, <<"q">> >>, <<"z", ".">>, None)]],
      [path |-> <<"linode", "{linodeId}">>,
       ops |-> [get |-> Op(<< <<"A">> >>, <<"z">>, "U2"),
                delete |-> Op(<< <<"B">> >>, NoneText, None)]],
      [path |-> <<"account">>,
       ops |-> [get |-> Op(<< <<"a">> >>, <<"b", ".">>, "U3"),
                post |-> Op(<< >>, <<"q">>, None),
                patch |-> Op(<< <<"A">> >>, <<"q">>, "U4")]],
      [path |-> <<"events">>,
       ops |-> [put |-> Op(<< <<"A">> >>, <<"z">>, None),
                post |-> Op(<< <<"A">> >>, <<"B">>, None)]] }

\* the documents of up to n path items
DocsOf(n) ==
    { [externalDocs |-> None, paths |-> ps] :
        ps \in { q \in UNION {[1..k -> PathItems] : k \in 0..n} :
                    \A i, j \in DOMAIN q : i # j => q[i].path # q[j].path } }

BuildDocs == DocsOf(MaxItems)

NotBuilt == <<>>

InitBuild ==
    /\ source \in [legacy : BuildDocs, new : BuildDocs, order : MethodOrders]
    /\ translator = NotBuilt
    /\ call = NoCall
    /\ CliIdle

\* URLTranslator(legacy_spec, new_spec)
Build ==
    /\ translator = NotBuilt
    /\ translator' = URLTranslator(source.legacy, source.new, source.order)
    /\ UNCHANGED <<source, call>>
    /\ UNCHANGED cliVars

NextBuild == Build

SpecBuild == InitBuild /\ [][NextBuild]_vars

---------------------------------------------------------------------------
(* commands/root: bake, convert and replace, and the files they work on *)

\* the text files given to replace, and the paths a replace is run on
FilePaths == {"f1", "f2", "f3"}
PathArgs == {<<"f1">>, <<"f2">>, <<"f3">>, <<"f1", "f2">>, <<"f1", "f1">>}

\* shared.PICKLE_PATH, and the values of bake's --output-file: PICKLE_PATH and
\* one other path.  No command reads a binary at another path, so binFiles
\* holds the binary at PICKLE_PATH alone.
PICKLE_PATH == "specdata.bin"
OutputFiles == {PICKLE_PATH, "other.bin"}

NoFile == [exists |-> FALSE, obj |-> <<>>]

\* URLTranslator.pickle: pickle.dump(self, f)
pickle_dump(self) == [exists |-> TRUE, obj |-> self]

\* a legacy documentation URL written out from its parts
LegacyUrl(f) ==
    (IF f.www THEN <<"H">> ELSE <<>>) \o <<"L">>
      \o (IF f.tag # NoneText THEN <<"/">> \o f.tag ELSE <<>>)
      \o (IF f.summary # NoneText THEN <<"/", "#">> \o f.summary ELSE <<>>)

UrlForms ==
    { [www |-> TRUE, tag |-> <<"a">>, summary |-> <<"b">>],
      [www |-> FALSE, tag |-> <<"a">>, summary |-> NoneText] }

\* the URL arguments convert is run on: legacy URLs, and one text that
\* holds a link after other characters
UrlArgs == {LegacyUrl(f) : f \in UrlForms} \cup { <<".", " ", "L">> }

ArgLists == UNION {[1..n -> UrlArgs] : n \in 1..MaxArgs}

Result(error, out, fs, reads, writes, rows, warnings, meta) ==
    [error |-> error, stdout |-> out, files |-> fs, reads |-> reads,
     writes |-> writes, rows |-> rows, warnings |-> warnings, meta |-> meta]

RECURSIVE join_without_separator(_)
\* a slip: the translations are joined without the separator
join_without_separator(parts) ==
    IF parts = <<>> THEN <<>>
    ELSE Head(parts) \o join_without_separator(Tail(parts))

RECURSIVE str_join(_)
\* " ".join(parts)
str_join(parts) ==
    IF parts = <<>> THEN <<>>
    ELSE IF Len(parts) = 1 THEN parts[1]
    ELSE parts[1] \o <<" ">> \o str_join(Tail(parts))

RECURSIVE convert_each(_, _, _, _)
\* [translator.replace_urls(v)[0] for v in args.url]: the translations so
\* far, or the exception of the first argument that raises
convert_each(self, urls, i, parts) ==
    IF i > Len(urls) THEN [kind |-> "return", parts |-> parts, meta |-> NoMeta]
    ELSE LET collect(r) ==
                 IF r.kind # "return"
                 THEN [kind |-> r.kind, parts |-> <<>>, meta |-> r.meta]
                 ELSE convert_each(self, urls, i + 1, Append(parts, r.text))
         IN  collect(replace_urls(self, urls[i], FALSE, None))

\* ConvertCommand.execute on the pickle binary bin
ConvertCommand_execute(bin, fs, urls) ==
    IF ~bin.exists
    THEN Result("FileNotFoundError", <<>>, fs, <<>>, <<>>, <<>>, <<>>, NoMeta)
    ELSE LET emit(r) ==
                 IF r.kind # "return"
                 THEN Result(r.kind, <<>>, fs, <<>>, <<>>, <<>>, <<>>, r.meta)
                 ELSE Result("none", str_join(r.parts) \o <<"NL">>, fs,
                             <<>>, <<>>, <<>>, <<>>, NoMeta)
         IN  emit(convert_each(bin.obj, urls, 1, <<>>))

\* a slip: the number of paths is tested alone
too_many_paths_any(write_changes, paths) == Len(paths) > 1

\* not args.write_changes and len(args.path) > 1
too_many_paths(write_changes, paths) == ~write_changes /\ Len(paths) > 1

\* ReplaceCommand._format_url_for_output raises TypeError on None:
\* urlparse(None) gives bytes, and str is added to them
format_raises(translations) ==
    \E k \in 1..Len(translations) : translations[k].after = None

\* a slip: the updated content is written to the file and printed
store_and_print(acc, file, updated_content, write_changes) ==
    [acc EXCEPT !.files[file] = updated_content,
                !.writes = Append(@, file),
                !.stdout = @ \o updated_content]

\* the end of the loop body of ReplaceCommand.execute: write the file or print
store_or_print(acc, file, updated_content, write_changes) ==
    IF write_changes
    THEN [acc EXCEPT !.files[file] = updated_content, !.writes = Append(@, file)]
    ELSE [acc EXCEPT !.stdout = @ \o updated_content]

RECURSIVE replace_each(_, _, _, _, _, _)
\* the loop of ReplaceCommand.execute over args.path from the i-th path on;
\* rows are the rows of the table printed to stderr, before their sort
replace_each(self, paths, write_changes, force, i, acc) ==
    IF i > Len(paths) THEN acc
    ELSE LET file == paths[i]
             read == [acc EXCEPT !.reads = Append(@, file)]
             body(r) ==
                 IF r.kind # "return"
                 THEN [read EXCEPT !.error = r.kind, !.meta = r.meta,
                                   !.warnings = @ \o r.warnings]
                 ELSE IF format_raises(r.replacements)
                 THEN [read EXCEPT !.error = "TypeError",
                                   !.warnings = @ \o r.warnings]
                 ELSE replace_each(self, paths, write_changes, force, i + 1,
                         store_or_print(
                             [read EXCEPT !.rows = @ \o r.replacements,
                                          !.warnings = @ \o r.warnings],
                             file, r.text, write_changes))
         IN  body(replace_urls(self, acc.files[file], force, file))

\* ReplaceCommand.execute on the pickle binary bin and the files fs
ReplaceCommand_execute(bin, fs, paths, write_changes, force) ==
    IF ~bin.exists
    THEN Result("FileNotFoundError", <<>>, fs, <<>>, <<>>, <<>>, <<>>, NoMeta)
    ELSE IF too_many_paths(write_changes, paths)
    THEN Result("ValueError", <<>>, fs, <<>>, <<>>, <<>>, <<>>, NoMeta)
    ELSE replace_each(bin.obj, paths, write_changes, force, 1,
                      Result("none", <<>>, fs, <<>>, <<>>, <<>>, <<>>, NoMeta))

NoCommand ==
    [cmd |-> "none", urls |-> <<>>, paths |-> <<>>, write_changes |-> FALSE,
     force |-> FALSE, output_file |-> "", before |-> <<>>,
     result |-> Result("none", <<>>, <<>>, <<>>, <<>>, <<>>, <<>>, NoMeta)]

\* the texts the two files hold at the start
FileStart ==
    [f1 |-> <<"H", "L", "/", "a", "/", "#", "b", "NL", "L", "/", "a", " ", "L">>,
     f2 |-> <<"L", "/", "a", "/", "#", "q", "NL", "L", "/", "a", "/", "#", "b">>,
     f3 |-> <<"L", "/", "a", "/", "#", "b", " ", "L", "/", "q", ")">>]

LibIdle ==
    /\ source = <<>>
    /\ translator = <<>>
    /\ call = NoCall

Init ==
    /\ docFiles = [legacy |-> LegacyDocC, new |-> NewDocA]
    /\ binFiles = [b \in {PICKLE_PATH} |-> NoFile]
    /\ files = FileStart
    /\ baked = [made |-> FALSE, legacy |-> <<>>, new |-> <<>>]
    /\ stdout = <<>>
    /\ last = NoCommand
    /\ LibIdle

\* the documents are edited on disk, outside the program
EditDocument ==
    /\ \E version \in DocVersions :
          /\ version # docFiles
          /\ docFiles' = version
    /\ last' = [NoCommand EXCEPT !.cmd = "edit", !.before = files]
    /\ stdout' = <<>>
    /\ UNCHANGED <<binFiles, files, baked>>
    /\ UNCHANGED libVars

\* BakeCommand.execute: the two documents are parsed, the translator is built
\* in this process's order of valid_paths, and pickled to args.output_file
Bake ==
    /\ \E output_file \in OutputFiles, order \in MethodOrders :
          /\ binFiles' =
                IF output_file = PICKLE_PATH
                THEN [binFiles EXCEPT ![PICKLE_PATH] =
                        pickle_dump(URLTranslator(docFiles.legacy, docFiles.new, order))]
                ELSE binFiles
          /\ baked' = IF output_file = PICKLE_PATH
                      THEN [made |-> TRUE, legacy |-> docFiles.legacy,
                            new |-> docFiles.new]
                      ELSE baked
          /\ last' = [NoCommand EXCEPT !.cmd = "bake", !.output_file = output_file,
                                       !.before = files]
    /\ stdout' = <<>>
    /\ UNCHANGED <<docFiles, files>>
    /\ UNCHANGED libVars

\* ConvertCommand.execute; URLTranslator.load_pickled reads PICKLE_PATH
Convert ==
    /\ \E urls \in ArgLists :
          LET exit(res) ==
                  /\ stdout' = res.stdout
                  /\ last' = [NoCommand EXCEPT !.cmd = "convert", !.urls = urls,
                                               !.before = files, !.result = res]
          IN  exit(ConvertCommand_execute(binFiles[PICKLE_PATH], files, urls))
    /\ UNCHANGED <<docFiles, binFiles, files, baked>>
    /\ UNCHANGED libVars

\* ReplaceCommand.execute; URLTranslator.load_pickled reads PICKLE_PATH
Replace ==
    /\ \E paths \in PathArgs, write_changes \in BOOLEAN, force \in BOOLEAN :
          LET exit(res) ==
                  /\ files' = res.files
                  /\ stdout' = res.stdout
                  /\ last' = [NoCommand EXCEPT !.cmd = "replace", !.paths = paths,
                                               !.write_changes = write_changes,
                                               !.force = force, !.before = files,
                                               !.result = res]
          IN  exit(ReplaceCommand_execute(binFiles[PICKLE_PATH], files, paths,
                                          write_changes, force))
    /\ UNCHANGED <<docFiles, binFiles, baked>>
    /\ UNCHANGED libVars

Next == EditDocument \/ Bake \/ Convert \/ Replace

Spec == Init /\ [][Next]_vars

---------------------------------------------------------------------------
(* What the claims speak of *)

RECURSIVE FindAll(_, _)
\* the legacy links of a text: the matches of LEGACY_URL_REGEX from position
\* i on, leftmost first, none overlapping another
FindAll(s, i) ==
    IF i > Len(s) THEN <<>>
    ELSE LET m == MatchAt(s, i)
         IN  IF m.found THEN <<m>> \o FindAll(s, m.end) ELSE FindAll(s, i + 1)

\* the components of a link given by its text alone
ComponentsOf(link) == LegacyURLComponents(MatchAt(link, 1))

\* the URL a new-index operation under key gives, None when it gives none
NewIndexUrl(self, key) ==
    IF \E i \in 1..Len(self.new_spec.paths) : self.new_spec.paths[i][1] = key
    THEN LET i == CHOOSE i \in 1..Len(self.new_spec.paths) :
                      self.new_spec.paths[i][1] = key
         IN  self.new_spec.paths[i][2].external_docs_url
    ELSE None

\* the legacy operation a link's components lead to, by the tag/summary index
LegacyOpOf(self, c) ==
    IF c.summary # NoneText
    THEN LET i == CHOOSE i \in 1..Len(self.legacy_op_map) :
                      self.legacy_op_map[i][1] = <<c.tag, c.summary>>
         IN  self.legacy_op_map[i][2]
    ELSE LET i == CHOOSE i \in 1..Len(self.legacy_op_map) :
                      /\ self.legacy_op_map[i][1][1] = c.tag
                      /\ \A j \in 1..(i - 1) : self.legacy_op_map[j][1][1] # c.tag
         IN  self.legacy_op_map[i][2]

HasLegacyOp(self, c) ==
    IF c.summary # NoneText
    THEN \E i \in 1..Len(self.legacy_op_map) :
            self.legacy_op_map[i][1] = <<c.tag, c.summary>>
    ELSE \E i \in 1..Len(self.legacy_op_map) : self.legacy_op_map[i][1][1] = c.tag

\* the new documentation URL a link resolves to, None when it resolves to none
ResolvesTo(self, c) ==
    IF c.tag = NoneText THEN self.new_spec.root_docs_url
    ELSE IF ~HasLegacyOp(self, c) THEN None
    ELSE LET lop == LegacyOpOf(self, c)
         IN  NewIndexUrl(self, <<(<<"{}">> \o lop.path), lop.method>>)

RECURSIVE Rewrites(_, _, _, _, _)
\* the texts in which, from position pos of target on, the links ms[j..] that
\* resolve to a URL are replaced by it and every character outside a link is
\* kept in place; a link that resolves to no URL is kept or dropped
Rewrites(self, target, ms, j, pos) ==
    IF j > Len(ms) THEN {SubSeq(target, pos, Len(target))}
    ELSE LET m == ms[j]
             url == ResolvesTo(self, LegacyURLComponents(m))
             link == SubSeq(target, m.start, m.end - 1)
             put == IF url # None THEN {<<url>>} ELSE {<<>>, link}
         IN  {SubSeq(target, pos, m.start - 1) \o w \o rest :
                 w \in put, rest \in Rewrites(self, target, ms, j + 1, m.end)}

Returned == call.made /\ call.outcome.kind = "return"

\* C1: the text replace_urls returns is its target with every legacy link
\* that resolves to a new documentation URL replaced by that URL, and every
\* character outside a legacy link unchanged and in place
C1_ReplaceUrls ==
    Returned =>
        call.outcome.text \in
            Rewrites(translator, call.target, FindAll(call.target, 1), 1, 1)

\* a returned call whose target holds text outside links, and at least two
\* links that were replaced
C1_Witness ==
    /\ Returned
    /\ Len(call.outcome.replacements) >= 2
    /\ \E i \in 1..Len(call.target) : call.target[i] \in {" ", ".", "NL"}
    /\ \E i \in 1..Len(call.outcome.text) : call.outcome.text[i] \in Urls

Replacements == call.outcome.replacements
Warnings == call.outcome.warnings

HasTagAndSummary(c) == c.tag # NoneText /\ c.summary # NoneText
HasTagOnly(c) == c.tag # NoneText /\ c.summary = NoneText

\* two path segments that differ at most in the name of a path parameter
SameButNames(a, b) ==
    \/ a = b
    \/ a \in ParamSegments \cup {"{}"} /\ b \in ParamSegments \cup {"{}"}

\* path is shorter preceded by one path-parameter segment, names ignored
PrefixedByParam(path, shorter) ==
    /\ Len(path) = Len(shorter) + 1
    /\ path[1] \in ParamSegments \cup {"{}"}
    /\ \A k \in 1..Len(shorter) : SameButNames(path[k + 1], shorter[k])

\* C2: a link with a tag and a summary that the legacy index holds is
\* translated to the external documentation URL of the new-index operation
\* with the legacy operation's method and its path behind one leading
\* path-parameter segment, parameter names ignored; no other is chosen, and
\* such a link fails only when that operation is missing or has no URL
C2_TagAndSummary ==
    call.made =>
        /\ \A k \in 1..Len(Replacements) :
              LET r == Replacements[k]
                  c == ComponentsOf(r.before)
              IN  HasTagAndSummary(c) =>
                    /\ HasLegacyOp(translator, c)
                    /\ r.after # None
                    /\ LET lop == LegacyOpOf(translator, c)
                       IN  /\ r.after = NewIndexUrl(translator,
                                           <<(<<"{}">> \o lop.path), lop.method>>)
                           /\ \E i \in 1..Len(source.new.paths) :
                                 LET item == source.new.paths[i]
                                 IN  /\ lop.method \in DOMAIN item.ops
                                     /\ PrefixedByParam(item.path, lop.path)
                                     /\ item.ops[lop.method].externalDocs = r.after
        /\ \A k \in 1..Len(Warnings) :
              LET c == ComponentsOf(Warnings[k].before)
              IN  (HasTagAndSummary(c) /\ HasLegacyOp(translator, c)) =>
                    LET lop == LegacyOpOf(translator, c)
                    IN  NewIndexUrl(translator,
                                    <<(<<"{}">> \o lop.path), lop.method>>) = None

\* a link with tag and summary was translated through a legacy path that has
\* a path parameter, to a new path whose parameters carry other names
C2_Witness ==
    /\ call.made
    /\ \E k \in 1..Len(Replacements) :
          LET c == ComponentsOf(Replacements[k].before)
          IN  /\ HasTagAndSummary(c)
              /\ "{}" \in {LegacyOpOf(translator, c).path[j] :
                              j \in 1..Len(LegacyOpOf(translator, c).path)}
              /\ Replacements[k].after = "U2"

\* a link that names a tag and resolves to no URL
Untranslatable(self, c) == c.tag # NoneText /\ ResolvesTo(self, c) = None

RECURSIVE ForcedRewrite(_, _, _, _, _)
\* target with every translatable link replaced and every other link kept
ForcedRewrite(self, target, ms, j, pos) ==
    IF j > Len(ms) THEN SubSeq(target, pos, Len(target))
    ELSE LET m == ms[j]
             c == LegacyURLComponents(m)
             w == IF Untranslatable(self, c) THEN SubSeq(target, m.start, m.end - 1)
                  ELSE Written(ResolvesTo(self, c))
         IN  SubSeq(target, pos, m.start - 1) \o w
                \o ForcedRewrite(self, target, ms, j + 1, m.end)

\* C3: with force set replace_urls always returns; every link that cannot be
\* translated is in the output as it was in the input and has a warning, and
\* every other link is translated
C3_ForceNeverAborts ==
    (call.made /\ call.force) =>
        LET ms == FindAll(call.target, 1)
        IN  /\ call.outcome.kind = "return"
            /\ call.outcome.text = ForcedRewrite(translator, call.target, ms, 1, 1)
            /\ Len(Warnings) =
                 Cardinality({j \in 1..Len(ms) :
                     Untranslatable(translator, LegacyURLComponents(ms[j]))})

\* C5: a link that names no tag is translated to the root external
\* documentation URL of the new API description and never fails
C5_NoTag ==
    call.made =>
        /\ \A k \in 1..Len(Replacements) :
              ComponentsOf(Replacements[k].before).tag = NoneText =>
                  Replacements[k].after = source.new.externalDocs
        /\ \A k \in 1..Len(Warnings) :
              ComponentsOf(Warnings[k].before).tag # NoneText
        /\ call.outcome.kind = "TranslationError" =>
              ComponentsOf(call.outcome.meta.before).tag # NoneText
        /\ Returned =>
              LET ms == FindAll(call.target, 1)
              IN  Cardinality({j \in 1..Len(ms) : ms[j].tag = NoneText}) =
                  Cardinality({k \in 1..Len(Replacements) :
                                 ComponentsOf(Replacements[k].before).tag = NoneText})

\* a link with a summary and no tag was translated to the root URL by a
\* translator whose legacy index is not empty
C5_Witness ==
    /\ call.made
    /\ Len(translator.legacy_op_map) > 0
    /\ \E k \in 1..Len(Replacements) :
          LET c == ComponentsOf(Replacements[k].before)
          IN  /\ c.tag = NoneText
              /\ c.summary # NoneText
              /\ Replacements[k].after = "R"

\* the positions of the tag/summary index whose tag is tag
WithTag(self, tag) ==
    {i \in 1..Len(self.legacy_op_map) : self.legacy_op_map[i][1][1] = tag}

\* the URL of the new-index counterpart of the i-th entry of the tag/summary index
CounterpartUrl(self, i) ==
    LET lop == self.legacy_op_map[i][2]
    IN  NewIndexUrl(self, <<(<<"{}">> \o lop.path), lop.method>>)

\* C6: a link that names a tag and no summary is translated to the URL of
\* the counterpart of the first entry of the tag/summary index with that tag,
\* and fails when that counterpart is missing or has no URL
C6_TagOnly ==
    call.made =>
        /\ \A k \in 1..Len(Replacements) :
              LET r == Replacements[k]
                  c == ComponentsOf(r.before)
                  hits == WithTag(translator, c.tag)
              IN  HasTagOnly(c) =>
                    /\ hits # {}
                    /\ r.after # None
                    /\ \E i \in hits :
                          /\ \A j \in hits : i <= j
                          /\ r.after = CounterpartUrl(translator, i)
        /\ \A k \in 1..Len(Warnings) :
              LET c == ComponentsOf(Warnings[k].before)
                  hits == WithTag(translator, c.tag)
              IN  HasTagOnly(c) =>
                    /\ hits # {}
                    /\ \E i \in hits :
                          /\ \A j \in hits : i <= j
                          /\ CounterpartUrl(translator, i) = None

\* a tag-only link was translated while a later entry of the index with the
\* same tag has a counterpart with another URL
C6_Witness ==
    /\ call.made
    /\ \E k \in 1..Len(Replacements) :
          LET r == Replacements[k]
              c == ComponentsOf(r.before)
          IN  /\ HasTagOnly(c)
              /\ \E j \in WithTag(translator, c.tag) :
                    CounterpartUrl(translator, j) \notin {None, r.after}

---------------------------------------------------------------------------
(* What the claims about the commands speak of *)

Bin == binFiles[PICKLE_PATH]

RunReplace == last.cmd = "replace"
RunConvert == last.cmd = "convert"

\* the position of the first link of content that cannot be translated, 0 if none
FirstUntranslatable(self, content) ==
    LET ms == FindAll(content, 1)
        bad == {j \in 1..Len(ms) : Untranslatable(self, LegacyURLComponents(ms[j]))}
    IN  IF bad = {} THEN 0
        ELSE ms[CHOOSE j \in bad : \A k \in bad : j <= k].start

\* line and column, both from 1, of the token at position start
LineOf(content, start) ==
    1 + Cardinality({k \in 1..(start - 1) : content[k] = "NL"})

ColumnOf(content, start) ==
    LET seps == {k \in 1..(start - 1) : content[k] = "NL"}
        lineStart == IF seps = {} THEN 0 ELSE CHOOSE k \in seps : \A j \in seps : j <= k
    IN  Chars(content, start - 1) - Chars(content, lineStart) + 1

\* C4: without force, a replace of a file that holds a link which cannot be
\* translated ends in a TranslationError for the first such link, carrying
\* its text, the file and its line and position; the file is neither
\* overwritten nor printed
C4_RaisesTranslationError ==
    (/\ RunReplace
     /\ ~last.force
     /\ Bin.exists
     /\ Len(last.paths) = 1
     /\ FirstUntranslatable(Bin.obj, last.before[last.paths[1]]) > 0) =>
        LET file == last.paths[1]
            content == last.before[file]
            start == FirstUntranslatable(Bin.obj, content)
            m == MatchAt(content, start)
        IN  /\ last.result.error = "TranslationError"
            /\ last.result.meta.before = SubSeq(content, m.start, m.end - 1)
            /\ last.result.meta.file = file
            /\ last.result.meta.location =
                  <<LineOf(content, start), ColumnOf(content, start)>>
            /\ files = last.before
            /\ stdout = <<>>

\* C7: replace with more than one path and without --write_changes fails
\* before any file is read, written or printed; with one path, or with
\* --write_changes, that check does not fail
C7_PathCheck ==
    RunReplace =>
        /\ (~last.write_changes /\ Len(last.paths) > 1) =>
              /\ last.result.error \in {"ValueError", "FileNotFoundError"}
              /\ Bin.exists => last.result.error = "ValueError"
              /\ last.result.reads = <<>>
              /\ last.result.writes = <<>>
              /\ files = last.before
              /\ stdout = <<>>
        /\ (last.write_changes \/ Len(last.paths) = 1) =>
              last.result.error # "ValueError"

\* two paths were given without --write_changes to a replace that found its
\* pickle binary
C7_Witness ==
    /\ RunReplace
    /\ Bin.exists
    /\ ~last.write_changes
    /\ Len(last.paths) = 2
    /\ last.result.error = "ValueError"

RECURSIVE Passes(_, _, _, _, _)
\* content after n passes of replace_urls, each on the result of the last
Passes(self, content, force, file, n) ==
    IF n = 0 THEN content
    ELSE replace_urls(self, Passes(self, content, force, file, n - 1),
                      force, file).text

\* how often file is among the paths given
Times(paths, file) == Cardinality({i \in 1..Len(paths) : paths[i] = file})

OutcomeWith(self) ==
    IF RunConvert
    THEN ConvertCommand_execute(pickle_dump(self), last.before, last.urls)
    ELSE ReplaceCommand_execute(pickle_dump(self), last.before, last.paths,
                                last.write_changes, last.force)

\* C9: the outcome of a convert or replace is that of a translator built
\* directly from the two documents of the last bake into the default binary,
\* whatever was done to the documents since
C9_DependsOnBakedDocuments ==
    ((RunConvert \/ RunReplace) /\ baked.made) =>
        \A o \in MethodOrders :
            last.result = OutcomeWith(URLTranslator(baked.legacy, baked.new, o))

RECURSIVE SpaceJoined(_)
SpaceJoined(parts) ==
    IF Len(parts) = 0 THEN <<>>
    ELSE IF Len(parts) = 1 THEN Head(parts)
    ELSE Head(parts) \o <<" ">> \o SpaceJoined(Tail(parts))

\* the translation expected for one argument of convert
ExpectedFor(self, arg) ==
    IF \E f \in UrlForms : LegacyUrl(f) = arg
    THEN LET f == CHOOSE f \in UrlForms : LegacyUrl(f) = arg
         IN  Written(ResolvesTo(self, [tag |-> f.tag, summary |-> f.summary]))
    ELSE ForcedRewrite(self, arg, FindAll(arg, 1), 1, 1)

\* C10: a convert that completes prints the translations of its arguments
\* in their order, joined by single spaces; an argument that is one legacy
\* URL, with or without https://www., gives the new URL and nothing else
C10_ConvertOutput ==
    (RunConvert /\ last.result.error = "none") =>
        stdout = SpaceJoined([i \in 1..Len(last.urls) |->
                                 ExpectedFor(Bin.obj, last.urls[i])]) \o <<"NL">>

\* a convert completed on two different legacy URLs, one of them with https://www.
C10_Witness ==
    /\ RunConvert
    /\ last.result.error = "none"
    /\ Len(last.urls) = 2
    /\ last.urls[1] # last.urls[2]
    /\ \A i \in 1..2 : \E f \in UrlForms : LegacyUrl(f) = last.urls[i]
    /\ \E i \in 1..Len(stdout) : stdout[i] = " "

---------------------------------------------------------------------------
(* What the claims about the indexes speak of *)

Built == translator # NotBuilt

\* the get, post, put and delete operations a document defines, each named
\* by the position of its path item and its method
DocOps(doc) ==
    {v \in (1..Len(doc.paths)) \X valid_paths : v[2] \in DOMAIN doc.paths[v[1]].ops}

\* the place of method in the iteration order of valid_paths
MethodRank(order, method) == CHOOSE i \in DOMAIN order : order[i] = method

\* v is visited before w: path items in document order, methods in order
VisitedBefore(order, v, w) ==
    \/ v[1] < w[1]
    \/ v[1] = w[1] /\ MethodRank(order, v[2]) < MethodRank(order, w[2])

\* the one of the operations vs that is visited last
VisitedLast(order, vs) ==
    CHOOSE v \in vs : \A w \in vs \ {v} : VisitedBefore(order, w, v)

\* operation v of doc as the index records it
Condensed(doc, v) ==
    LET op == doc.paths[v[1]].ops[v[2]]
    IN  [summary |-> op.summary,
         tag |-> IF op.tags = <<>> THEN NoneText ELSE Head(op.tags),
         path |-> strip_url_ids(doc.paths[v[1]].path),
         method |-> v[2],
         external_docs_url |-> op.externalDocs]

PathKey(doc, v) == <<strip_url_ids(doc.paths[v[1]].path), v[2]>>

HasBoth(doc, v) ==
    LET op == doc.paths[v[1]].ops[v[2]]
    IN  op.tags # <<>> /\ op.summary # NoneText

FlatKey(doc, v) ==
    LET op == doc.paths[v[1]].ops[v[2]]
    IN  <<flatten_path_for_url(Head(op.tags)), flatten_path_for_url(op.summary)>>

Keys(d) == {d[i][1] : i \in 1..Len(d)}

\* index holds exactly the keys of the operations vs of doc, each with the
\* operation visited last among those of its key
IndexOf(index, doc, order, vs, key(_, _)) ==
    /\ Keys(index) = {key(doc, v) : v \in vs}
    /\ \A i, j \in 1..Len(index) : index[i][1] = index[j][1] => i = j
    /\ \A i \in 1..Len(index) :
          index[i][2] =
             Condensed(doc, VisitedLast(order,
                                        {v \in vs : key(doc, v) = index[i][1]}))

\* C11: a built translator's path/method indexes hold exactly the (path
\* without parameter names, method) pairs of the get, post, put and delete
\* operations of their documents, its tag/summary index holds exactly the
\* flattened (first tag, summary) pairs of the legacy operations that have
\* both, and under a shared key each index holds the operation visited last
C11_Indexes ==
    Built =>
        /\ IndexOf(translator.legacy_spec.paths, source.legacy, source.order,
                   DocOps(source.legacy), PathKey)
        /\ IndexOf(translator.new_spec.paths, source.new, source.order,
                   DocOps(source.new), PathKey)
        /\ IndexOf(translator.legacy_op_map, source.legacy, source.order,
                   {v \in DocOps(source.legacy) : HasBoth(source.legacy, v)},
                   FlatKey)

---------------------------------------------------------------------------
(* What the claim about anchors speaks of *)

\* the URLs the links of a text were translated to, in order
TranslatedTo(outcome) ==
    [i \in 1..Len(outcome.replacements) |-> outcome.replacements[i].after]

\* with is what replace_urls gives for base written with anchor, without
\* what it gives for base alone
SameButAnchor(target, with, without) ==
    /\ MatchAt(target, 1).found
    /\ MatchAt(target, 1).end = Len(target) + 1
    /\ with.kind = without.kind
    /\ with.kind = "return" =>
          /\ TranslatedTo(with) = TranslatedTo(without)
          /\ Len(with.warnings) = Len(without.warnings)
          /\ with.replacements # <<>> => with.text = without.text

\* C12: a legacy link written with a __anchor suffix is matched whole and
\* translates to the URL the link without the suffix translates to; the
\* anchor changes neither the operation chosen nor the output
C12_AnchorIgnored ==
    \A base \in BaseLinks, anchor \in Anchors :
        (call.made /\ call.target = WithAnchor(base, anchor)) =>
            SameButAnchor(call.target, call.outcome,
                          replace_urls(translator, base, call.force, call.path))

====
